---- MODULE Spec2Model ----
(***************************************************************************)
(* Model of src/document/section/section.rs: Section::parse and            *)
(* Section::update_related.                                                *)
(*                                                                         *)
(* A Rust String is modelled as a sequence of one-character strings, so    *)
(* that split("\n") and starts_with are computed character by character.   *)
(* A HashMap<String, Vec<String>> is a function whose domain is its key    *)
(* set.  A panic (Option::unwrap / Result::unwrap on a missing value)      *)
(* terminates the process; it is recorded as an outcome of kind "Panic".   *)
(***************************************************************************)
EXTENDS Integers, Sequences, FiniteSets, TLC

\* ------------------------------------------------------------------ bounds
\* largest number of non-header lines of an input block
MaxLines == 2
\* largest length of the known-headers sequence
MaxHeaders == 2
\* largest number of successive reconciliations of one Section
MaxPasses == 2

\* ------------------------------------------------------------- characters
LF == "\n"
Ancestors == <<"A","n","c","e","s","t","o","r","s">>
Children == <<"C","h","i","l","d","r","e","n">>
Related == <<"R","e","l","a","t","e","d">>
Note == <<"N","o","t","e">>
Delimiter == <<":"," ">>

\* ------------------------------------------------------------ input pools
\* headers of other sections
HeaderPool == { <<"a","b">>, <<"a","b","c">>, <<"b">> }
\* payloads typed after a category label (shorthands of headers, or not)
TextPool == { <<"a">>, <<"a","b">>, <<"c">> }
CategoryPool == { Ancestors, Children, Related, Note }
\* first lines of a block: empty, plain, and with surrounding blanks
FirstLinePool == { <<>>, <<"a","b">>, <<" ","b"," ">> }
\* lines without a category label
MalformedPool == { <<>>, <<"a","b">> }
LinePool == { c \o Delimiter \o t : c \in CategoryPool, t \in TextPool } \cup MalformedPool

RECURSIVE Join(_)
Join(ls) == IF Len(ls) = 0 THEN <<>>
            ELSE IF Len(ls) = 1 THEN ls[1]
            ELSE ls[1] \o <<LF>> \o Join(Tail(ls))

Blocks == { Join(<<h>> \o ls) : h \in FirstLinePool,
                               ls \in UNION { [1..n -> LinePool] : n \in 0..MaxLines } }
HeaderVecs == UNION { [1..n -> HeaderPool] : n \in 0..MaxHeaders }

Range(f) == { f[i] : i \in DOMAIN f }

\* ------------------------------------------------------- library functions
\* variant of Split that keeps only the non-empty segments
RECURSIVE Split_skip_empty(_)
Split_skip_empty(text) ==
    IF \A i \in 1..Len(text) : text[i] # LF
    THEN IF Len(text) = 0 THEN <<>> ELSE <<text>>
    ELSE LET i == CHOOSE j \in 1..Len(text) :
                      text[j] = LF /\ \A k \in 1..(j-1) : text[k] # LF
         IN (IF i = 1 THEN <<>> ELSE <<SubSeq(text, 1, i-1)>>)
            \o Split_skip_empty(SubSeq(text, i+1, Len(text)))

\* str::split("\n"): the segments between line breaks; never an empty list
RECURSIVE Split(_)
Split(text) ==
    IF \A i \in 1..Len(text) : text[i] # LF THEN <<text>>
    ELSE LET i == CHOOSE j \in 1..Len(text) :
                      text[j] = LF /\ \A k \in 1..(j-1) : text[k] # LF
         IN <<SubSeq(text, 1, i-1)>> \o Split(SubSeq(text, i+1, Len(text)))

\* str::starts_with: s is a prefix of h
starts_with(h, s) == Len(s) <= Len(h) /\ SubSeq(h, 1, Len(s)) = s

\* outcomes of an operation
Ok(v) == [kind |-> "Ok", at |-> "", value |-> v]
Panic(where) == [kind |-> "Panic", at |-> where, value |-> <<>>]

\* Information::parse followed by get_category / get_text: the Line
\* Classifier.  A line is a category label, the delimiter ": " and a text.
Information_parse(line) ==
    LET hits == { i \in 1..(Len(line)-1) : SubSeq(line, i, i+1) = Delimiter }
    IN IF hits = {} THEN [kind |-> "Err", category |-> <<>>, text |-> <<>>]
       ELSE LET i == CHOOSE j \in hits : \A k \in hits : j <= k
            IN [kind |-> "Ok", category |-> SubSeq(line, 1, i-1),
                text |-> SubSeq(line, i+2, Len(line))]

\* ----------------------------------------------------------- Section::parse
EmptyMap == [k \in {} |-> <<>>]

\* variant of the match arm that forgets "Related"
IsRelatedCategory_two(category) == category \in { Ancestors, Children }

\* the match arm "Ancestors" | "Children" | "Related"
IsRelatedCategory(category) == category \in { Ancestors, Children, Related }

\* variant of Push that inserts unconditionally, replacing the entry
Push_overwrite(map, category, text) ==
    [k \in DOMAIN map \cup {category} |->
         IF k = category THEN <<text>> ELSE map[k]]

\* match map.get_mut(&category) { Some(vec) => vec.push(text), None => insert }
Push(map, category, text) ==
    IF category \in DOMAIN map
    THEN [map EXCEPT ![category] = Append(@, text)]
    ELSE [k \in DOMAIN map \cup {category} |->
              IF k = category THEN <<text>> ELSE map[k]]

NewSection(header, information, related) ==
    [header |-> header, information |-> information, related |-> related]

\* the for loop over the classified lines; i.unwrap() panics on a failure
RECURSIVE ParseLoop(_, _, _, _)
ParseLoop(lines, header, information, related) ==
    IF Len(lines) = 0 THEN Ok(NewSection(header, information, related))
    ELSE LET i == Information_parse(Head(lines)) IN
         IF i.kind # "Ok" THEN Panic("classify")
         ELSE IF IsRelatedCategory(i.category)
              THEN ParseLoop(Tail(lines), header, information,
                             Push(related, i.category, i.text))
              ELSE ParseLoop(Tail(lines), header,
                             Push(information, i.category, i.text), related)

parse(text) ==
    LET raw_lines == Split(text) IN
    IF Len(raw_lines) = 0 THEN Panic("header")
    ELSE ParseLoop(Tail(raw_lines), Head(raw_lines), EmptyMap, EmptyMap)

\* -------------------------------------------------- Section::update_related
\* variant of find_matching_header that takes the last match
find_matching_header_last(str, hvec) ==
    LET matches == SelectSeq(hvec, LAMBDA h : starts_with(h, str))
    IN IF Len(matches) = 0 THEN Panic("lookup")
       ELSE Ok(matches[Len(matches)])

\* filter(|h| h.starts_with(&s)).next().unwrap().clone()
find_matching_header(str, hvec) ==
    LET matches == SelectSeq(hvec, LAMBDA h : starts_with(h, str))
    IN IF Len(matches) = 0 THEN Panic("lookup") ELSE Ok(Head(matches))

\* variant of process_related_string without the exact-match short cut
process_related_string_search(str, hset, hvec) ==
    find_matching_header(str, hvec)

\* match headers_set.contains(&s) { true => s, false => find_matching_header }
process_related_string(str, hset, hvec) ==
    IF str \in hset THEN Ok(str) ELSE find_matching_header(str, hvec)

\* variant of process_related_entry that collects the values back to front
process_related_entry_reversed(v, hset, hvec) ==
    LET r == [i \in 1..Len(v) |-> process_related_string(v[i], hset, hvec)]
    IN IF \E i \in 1..Len(v) : r[i].kind = "Panic" THEN Panic("lookup")
       ELSE Ok([i \in 1..Len(v) |-> r[Len(v) + 1 - i].value])

\* v.into_iter().map(process_related_string).collect()
process_related_entry(v, hset, hvec) ==
    LET r == [i \in 1..Len(v) |-> process_related_string(v[i], hset, hvec)]
    IN IF \E i \in 1..Len(v) : r[i].kind = "Panic" THEN Panic("lookup")
       ELSE Ok([i \in 1..Len(v) |-> r[i].value])

\* variant of update_related that rebuilds the Section without information
update_related_no_information(section, hset, hvec) ==
    LET r == [k \in DOMAIN section.related |->
                  process_related_entry(section.related[k], hset, hvec)]
    IN IF \E k \in DOMAIN r : r[k].kind = "Panic" THEN Panic("lookup")
       ELSE Ok(NewSection(section.header, EmptyMap,
                          [k \in DOMAIN r |-> r[k].value]))

\* section.related.into_iter().map(process_related_entry).collect()
update_related(section, hset, hvec) ==
    LET r == [k \in DOMAIN section.related |->
                  process_related_entry(section.related[k], hset, hvec)]
    IN IF \E k \in DOMAIN r : r[k].kind = "Panic" THEN Panic("lookup")
       ELSE Ok(NewSection(section.header, section.information,
                          [k \in DOMAIN r |-> r[k].value]))

\* ------------------------------------------------------------ state machine
VARIABLES
    s,            \* the paragraph handed to Section::parse
    headers_vec,  \* the known headers, in order
    headers_set,  \* the same headers as a set
    op,           \* the operation that ran last
    result,       \* its outcome: Ok with a Section, or Panic
    input,        \* the Section the last update_related consumed
    passes        \* number of reconciliations done

vars == <<s, headers_vec, headers_set, op, result, input, passes>>

NoSection == NewSection(<<>>, EmptyMap, EmptyMap)

Init ==
    /\ s \in Blocks
    /\ headers_vec \in HeaderVecs
    /\ headers_set = Range(headers_vec)
    /\ op = "none"
    /\ result = Ok(NoSection)
    /\ input = NoSection
    /\ passes = 0

DoParse ==
    /\ op = "none"
    /\ result' = parse(s)
    /\ op' = "parse"
    /\ UNCHANGED <<s, headers_vec, headers_set, input, passes>>

DoUpdateRelated ==
    /\ op # "none"
    /\ result.kind = "Ok"
    /\ passes < MaxPasses
    /\ input' = result.value
    /\ result' = update_related(result.value, headers_set, headers_vec)
    /\ op' = "update_related"
    /\ passes' = passes + 1
    /\ UNCHANGED <<s, headers_vec, headers_set>>

Next == DoParse \/ DoUpdateRelated

Spec == Init /\ [][Next]_vars

\* ------------------------------------------------------------- properties
Reserved == { Ancestors, Children, Related }

\* the text of a block before its first line break
BeforeFirstBreak(text) ==
    LET n == CHOOSE m \in 0..Len(text) :
                 /\ \A i \in 1..m : text[i] # LF
                 /\ (m = Len(text) \/ text[m+1] = LF)
    IN SubSeq(text, 1, n)

\* the non-header lines of the parsed block, classified
Classified == LET ls == Tail(Split(s)) IN [i \in 1..Len(ls) |-> Information_parse(ls[i])]
AllClassify == \A i \in DOMAIN Classified : Classified[i].kind = "Ok"

\* the texts of the lines classified as c, in block order
RECURSIVE TextsOf(_, _)
TextsOf(c, infos) ==
    IF Len(infos) = 0 THEN <<>>
    ELSE (IF infos[1].category = c THEN <<infos[1].text>> ELSE <<>>)
         \o TextsOf(c, Tail(infos))

\* the sequence a Section stores under category c
Stored(sec, c) ==
    LET m == IF c \in Reserved THEN sec.related ELSE sec.information
    IN IF c \in DOMAIN m THEN m[c] ELSE <<>>

\* positions (category, index) of the relation strings of a Section
Positions(sec) ==
    UNION { { <<k, i>> : i \in 1..Len(sec.related[k]) } : k \in DOMAIN sec.related }

\* indices of the known headers that str abbreviates
MatchIdx(str) == { j \in 1..Len(headers_vec) :
                     /\ Len(str) <= Len(headers_vec[j])
                     /\ \A n \in 1..Len(str) : headers_vec[j][n] = str[n] }
FirstIdx(str) == CHOOSE j \in MatchIdx(str) : \A k \in MatchIdx(str) : j <= k
Unresolvable(str) == str \notin headers_set /\ MatchIdx(str) = {}

AfterParse == op = "parse"
AfterUpdate == op = "update_related"
Succeeded == result.kind = "Ok"

\* C1: header extraction never fails, and the header of the Section that
\* parse returns is the text of the block before its first line break,
\* character for character.
C1_HeaderIsFirstLine ==
    AfterParse =>
        /\ ~(result.kind = "Panic" /\ result.at = "header")
        /\ (Succeeded => result.value.header = BeforeFirstBreak(s))

C1_Witness ==
    /\ AfterParse /\ Succeeded
    /\ result.value.header = <<" ","b"," ">>
    /\ DOMAIN result.value.related # {}
    /\ DOMAIN result.value.information # {}

\* C2: in every Section returned by parse or by update_related, the keys
\* of related are among Ancestors, Children, Related, no key of information
\* is one of them, and the two maps share no key.
C2_KeysPartitioned ==
    (op # "none" /\ Succeeded) =>
        /\ DOMAIN result.value.related \subseteq { Ancestors, Children, Related }
        /\ DOMAIN result.value.information \cap { Ancestors, Children, Related } = {}
        /\ DOMAIN result.value.related \cap DOMAIN result.value.information = {}

C2_Witness ==
    /\ AfterUpdate /\ Succeeded
    /\ Related \in DOMAIN result.value.related
    /\ Note \in DOMAIN result.value.information

\* C3: when every non-header line classifies, the sequence parse stores
\* under each category is exactly the texts of the lines of that category,
\* in block order, and no other category is stored.
C3_TextsAccumulateInOrder ==
    (AfterParse /\ AllClassify) =>
        /\ Succeeded
        /\ \A c \in CategoryPool \cup DOMAIN result.value.related
                               \cup DOMAIN result.value.information :
               /\ Stored(result.value, c) = TextsOf(c, Classified)
               /\ (c \in DOMAIN result.value.related \cup DOMAIN result.value.information
                     => TextsOf(c, Classified) # <<>>)

C3_Witness ==
    /\ AfterParse /\ Succeeded
    /\ \E c \in DOMAIN result.value.related :
           /\ Len(result.value.related[c]) >= 2
           /\ result.value.related[c][1] # result.value.related[c][2]

\* C4: a relation string that is an element of the known-headers set is
\* left unchanged by update_related, also when it is a prefix of other
\* known headers and wherever those stand in the sequence.
C4_ExactMatchUnchanged ==
    (AfterUpdate /\ Succeeded) =>
        \A p \in Positions(input) :
            input.related[p[1]][p[2]] \in headers_set
                => result.value.related[p[1]][p[2]] = input.related[p[1]][p[2]]

C4_Witness ==
    /\ AfterUpdate /\ Succeeded /\ passes = 1
    /\ \E p \in Positions(input) :
          LET str == input.related[p[1]][p[2]] IN
          /\ str \in headers_set
          /\ headers_vec[FirstIdx(str)] # str

\* C5: a relation string that is not an element of the known-headers set
\* and abbreviates some known header is replaced by the first header, in
\* sequence order, of which it is a prefix (the only one, when there is
\* exactly one); update_related succeeds when every string is resolvable.
C5_FirstPrefixMatch ==
    AfterUpdate =>
        /\ ((\A p \in Positions(input) : ~Unresolvable(input.related[p[1]][p[2]]))
              => Succeeded)
        /\ (Succeeded =>
              \A p \in Positions(input) :
                  LET str == input.related[p[1]][p[2]] IN
                  str \notin headers_set =>
                      /\ MatchIdx(str) # {}
                      /\ result.value.related[p[1]][p[2]] = headers_vec[FirstIdx(str)]
                      /\ (\A h \in headers_set :
                             ({ g \in headers_set : starts_with(g, str) } = {h})
                                 => result.value.related[p[1]][p[2]] = h))

C5_Witness ==
    /\ AfterUpdate /\ Succeeded /\ passes = 1
    /\ \E p \in Positions(input) :
          LET str == input.related[p[1]][p[2]] IN
          /\ str \notin headers_set
          /\ Cardinality({ headers_vec[j] : j \in MatchIdx(str) }) = 2
          /\ Len(headers_vec[FirstIdx(str)]) = 3

\* C6: reconciling a Section that holds a relation string which is neither
\* a known header nor a prefix of one yields an UnresolvedReferenceError
\* returned to the caller; the process is not terminated.
C6_UnresolvedIsRecoverable ==
    (AfterUpdate /\ \E p \in Positions(input) : Unresolvable(input.related[p[1]][p[2]]))
        => result.kind = "Err"

\* C7: when a non-header line fails classification, parse returns a
\* LineClassificationError as a failure value; the process is not aborted.
C7_ClassificationFailureIsRecoverable ==
    (AfterParse /\ ~AllClassify) => result.kind = "Err"

\* C9: the header of every Section produced by parse is non-empty; a block
\* without a header is reported as EmptyInputError instead.
C9_HeaderNonEmpty ==
    AfterParse =>
        /\ (Succeeded => result.value.header # <<>>)
        /\ ((BeforeFirstBreak(s) = <<>> /\ AllClassify) => result.kind = "Err")

\* C8: reconciling a Section whose relation strings are all known headers
\* returns a Section equal to its input; so a second reconciliation with
\* the same headers changes nothing.
C8_Idempotent ==
    AfterUpdate =>
        /\ ((\A p \in Positions(input) : input.related[p[1]][p[2]] \in headers_set)
              => (Succeeded /\ result.value = input))
        /\ ((passes >= 2 /\ Succeeded) => result.value = input)

C8_Witness ==
    /\ AfterUpdate /\ Succeeded /\ passes = 2
    /\ \E c \in DOMAIN input.related :
          /\ Len(input.related[c]) >= 2
          /\ input.related[c][1] # input.related[c][2]
          /\ \A i \in 1..Len(input.related[c]) : input.related[c][i] \in headers_set

\* the header a relation string stands for
Resolution(str) == IF str \in headers_set THEN str ELSE headers_vec[FirstIdx(str)]

\* C10: a successful update_related keeps the header, the information map
\* and the key set of related, and each category's sequence keeps its
\* length, the value at each position being the resolution of the input
\* value at that position.
C10_Frame ==
    (AfterUpdate /\ Succeeded) =>
        /\ result.value.header = input.header
        /\ result.value.information = input.information
        /\ DOMAIN result.value.related = DOMAIN input.related
        /\ \A c \in DOMAIN input.related :
              /\ Len(result.value.related[c]) = Len(input.related[c])
              /\ \A i \in 1..Len(input.related[c]) :
                    result.value.related[c][i] = Resolution(input.related[c][i])

C10_Witness ==
    /\ AfterUpdate /\ Succeeded /\ passes = 1
    /\ DOMAIN input.information # {}
    /\ input.header # <<>>
    /\ \E c \in DOMAIN input.related :
          /\ Len(input.related[c]) >= 1
          /\ result.value.related[c][1] # input.related[c][1]
====
